---- MODULE Spec2Model ----
(***************************************************************************)
(* Model of the URL shortener in src/app.py: the `url` and `click` tables, *)
(* and the request handlers shorten_url, redirect_to_url, get_stats and    *)
(* delete_url, each run by one of several concurrent request workers.      *)
(* Every handler owns a database session; what a handler reads before its  *)
(* commit is a snapshot held in the worker's locals, and `url` / `click`   *)
(* hold committed rows only.  Strings are sequences of one-character       *)
(* strings.  Timestamps, the QR image, the dashboard listing and the       *)
(* request metadata of a click (ip, user agent, referrer) are left out:    *)
(* no handler branches on them.                                            *)
(***************************************************************************)
EXTENDS Naturals, Integers, Sequences, FiniteSets

\* ------------------------------------------------------------------ bounds
\* Number of concurrent request workers.
NProcs == 2
\* Largest id the `url` table hands out (number of shorten requests that may
\* reach the insert).
MaxId == 2
\* Number of requests the workers accept in all.
MaxRequests == 3

Procs == 1..NProcs

\* --------------------------------------------------------------- constants
\* generate_short_code(length=6)
length == 6

\* string.ascii_letters + string.digits
characters ==
    << "a","b","c","d","e","f","g","h","i","j","k","l","m",
       "n","o","p","q","r","s","t","u","v","w","x","y","z",
       "A","B","C","D","E","F","G","H","I","J","K","L","M",
       "N","O","P","Q","R","S","T","U","V","W","X","Y","Z",
       "0","1","2","3","4","5","6","7","8","9" >>

\* The prefixes is_valid_url accepts.
http == << "h","t","t","p",":","/","/" >>
https == << "h","t","t","p","s",":","/","/" >>

\* Characters str.strip() removes (the ones the request bodies below use).
whitespace == { " ", "\t", "\n" }

\* ------------------------------------------------------------------ inputs
\* The request bodies of POST /shorten that are tried.
Inputs ==
    { << >>,
      << " " >>,
      << "f","t","p",":","/","/","a" >>,
      << "h","t","t","p",":","/","/","a" >>,
      << " ","h","t","t","p",":","/","/","a" >>,
      << "h","t","t","p","s",":","/","/","a"," " >> }

\* The outcomes of random.choices that are tried: one more than the table can
\* hold rows, so that a free code always exists (as with 62^6 codes).
NumCodes == MaxId + 1

\* ----------------------------------------------------------------- strings
RECURSIVE lstrip(_)
lstrip(s) ==
    IF s # << >> /\ Head(s) \in whitespace THEN lstrip(Tail(s)) ELSE s

RECURSIVE rstrip(_)
rstrip(s) ==
    IF s # << >> /\ s[Len(s)] \in whitespace
    THEN rstrip(SubSeq(s, 1, Len(s) - 1))
    ELSE s

strip(s) == rstrip(lstrip(s))

startswith(s, prefix) ==
    /\ Len(s) >= Len(prefix)
    /\ SubSeq(s, 1, Len(prefix)) = prefix

is_valid_url_any(url) == TRUE

is_valid_url(url) == startswith(url, http) \/ startswith(url, https)

\* random.choices(characters, k): the candidates tried are the k-fold
\* repetitions of the first NumCodes characters.
random_choices_short(k) ==
    { [i \in 1..(k - 1) |-> characters[j]] : j \in 1..NumCodes }

random_choices(k) ==
    { [i \in 1..k |-> characters[j]] : j \in 1..NumCodes }

\* ------------------------------------------------------------------- state
VARIABLES
    url,        \* committed rows of table `url`
    click,      \* committed rows of table `click`
    url_seq,    \* next id of table `url`
    click_seq,  \* next id of table `click`
    pc,         \* where each worker is in its handler
    arg,        \* shorten_url: the submitted url of the running request
    code,       \* generate_short_code: the local `code`
    url_entry,  \* redirect_to_url / delete_url: the row loaded by the query
    resp,       \* the response sent last
    requests    \* number of requests accepted so far

vars ==
    << url, click, url_seq, click_seq, pc, arg, code, url_entry, resp,
       requests >>

NoStr == << >>
NoRow == [id |-> 0, original_url |-> NoStr, short_code |-> NoStr, clicks |-> 0]
\* What a handler reads of the row it loaded before it commits.
NoEntry == [id |-> 0, clicks |-> 0]
Loaded(r) == [id |-> r.id, clicks |-> r.clicks]
NoResp ==
    [op |-> "none", status |-> 0, short_code |-> NoStr,
     original_url |-> NoStr, clicks |-> 0, error |-> "none"]

Response(op, status, sc, ou, n, err) ==
    [op |-> op, status |-> status, short_code |-> sc,
     original_url |-> ou, clicks |-> n, error |-> err]

\* URL(original_url=..., short_code=...): clicks defaults to 0.
NewURL(id, original_url, short_code) ==
    [id |-> id, original_url |-> original_url,
     short_code |-> short_code, clicks |-> 0]

\* Click(url_id=...)
NewClick(id, url_id) == [id |-> id, url_id |-> url_id]

\* URL.query.filter_by(short_code=c).first()
filter_by_short_code(c) ==
    IF \E r \in url : r.short_code = c
    THEN CHOOSE r \in url : r.short_code = c
    ELSE NoRow

\* URL.query.get(id)
query_get(id) ==
    IF \E r \in url : r.id = id
    THEN CHOOSE r \in url : r.id = id
    ELSE NoRow

\* short_code ... unique=True: an insert of code c violates the constraint.
unique_violation_off(c) == FALSE

unique_violation(c) == \E r \in url : r.short_code = c

\* generate_short_code: `URL.query.filter_by(short_code=code).first()` is truthy.
collides_never(c) == FALSE

collides(c) == filter_by_short_code(c) # NoRow

\* cascade="all, delete-orphan": the `click` rows left when url row `id` goes.
cascade_none(id) == click

cascade(id) == { c \in click : c.url_id # id }

Init ==
    /\ url = {}
    /\ click = {}
    /\ url_seq = 1
    /\ click_seq = 1
    /\ pc = [p \in Procs |-> "idle"]
    /\ arg = [p \in Procs |-> NoStr]
    /\ code = [p \in Procs |-> NoStr]
    /\ url_entry = [p \in Procs |-> NoEntry]
    /\ resp = NoResp
    /\ requests = 0

Respond(p, r) ==
    /\ resp' = r
    /\ pc' = [pc EXCEPT ![p] = "idle"]

\* A worker takes the next request.
Accept(p) ==
    /\ pc[p] = "idle"
    /\ requests < MaxRequests
    /\ requests' = requests + 1

InFlight(labels) == Cardinality({ q \in Procs : pc[q] \in labels })

\* ----------------------------------------------------------- POST /shorten
\* shorten_url, up to the call of generate_short_code.
ShortenStart(p, u) ==
    /\ Accept(p)
    /\ IF strip(u) = NoStr
       THEN /\ Respond(p, Response("shorten", 400, NoStr, NoStr, 0, "URL is required"))
            /\ UNCHANGED << url, click, url_seq, click_seq, arg, code, url_entry >>
       ELSE IF ~ is_valid_url(strip(u))
       THEN /\ Respond(p, Response("shorten", 400, NoStr, NoStr, 0, "Invalid URL"))
            /\ UNCHANGED << url, click, url_seq, click_seq, arg, code, url_entry >>
       ELSE /\ url_seq + InFlight({"generate", "insert"}) <= MaxId
            /\ pc' = [pc EXCEPT ![p] = "generate"]
            /\ arg' = [arg EXCEPT ![p] = u]
            /\ code' = [code EXCEPT ![p] = NoStr]
            /\ UNCHANGED << url, click, url_seq, click_seq, url_entry, resp >>

\* One turn of the loop of generate_short_code: draw, query, return or retry.
Generate(p) ==
    /\ pc[p] = "generate"
    /\ UNCHANGED requests
    /\ \E c \in random_choices(length) :
         /\ code' = [code EXCEPT ![p] = c]
         /\ pc' = [pc EXCEPT ![p] =
                     IF collides(c) THEN "generate" ELSE "insert"]
    /\ UNCHANGED << url, click, url_seq, click_seq, arg, url_entry, resp >>

\* The turn of the loop that returns.
GenerateReturns(p) == Generate(p) /\ pc'[p] = "insert"

\* shorten_url from db.session.add to the response, and its except clause.
Insert(p) ==
    /\ pc[p] = "insert"
    /\ UNCHANGED requests
    /\ \/ /\ ~ unique_violation(code[p])
          /\ url' = url \cup { NewURL(url_seq, strip(arg[p]), code[p]) }
          /\ url_seq' = url_seq + 1
          /\ Respond(p, Response("shorten", 200, code[p], strip(arg[p]), 0, "none"))
       \/ /\ unique_violation(code[p])
          /\ Respond(p, Response("shorten", 500, NoStr, NoStr, 0, "IntegrityError"))
          /\ UNCHANGED << url, url_seq >>
       \/ /\ Respond(p, Response("shorten", 500, NoStr, NoStr, 0, "OperationalError"))
          /\ UNCHANGED << url, url_seq >>
    /\ arg' = [arg EXCEPT ![p] = NoStr]
    /\ code' = [code EXCEPT ![p] = NoStr]
    /\ UNCHANGED << click, click_seq, url_entry >>

\* ------------------------------------------------------- GET /<short_code>
\* redirect_to_url: the query and the 404.
Redirect(p, sc) ==
    /\ Accept(p)
    /\ IF filter_by_short_code(sc) = NoRow
       THEN /\ Respond(p, Response("redirect", 404, sc, NoStr, 0, "none"))
            /\ UNCHANGED << url, click, url_seq, click_seq, arg, code, url_entry >>
       ELSE /\ url_entry' = [url_entry EXCEPT ![p] = Loaded(filter_by_short_code(sc))]
            /\ pc' = [pc EXCEPT ![p] = "record"]
            /\ UNCHANGED << url, click, url_seq, click_seq, arg, code, resp >>

\* The row `UPDATE url SET clicks=? WHERE id=?` writes: clicks is the value
\* the handler computed from the row it loaded.
SetClicks(rows, id, n) ==
    { IF r.id = id THEN [r EXCEPT !.clicks = n] ELSE r : r \in rows }

\* redirect_to_url: the try block (flush of the UPDATE and the INSERT, then
\* commit), its except clause, and the response.  The UPDATE of a row that is
\* gone matches nothing: the flush raises, the session is rolled back, and the
\* reload of url_entry.original_url for the response fails.
RecordClick(p) ==
    /\ pc[p] = "record"
    /\ UNCHANGED requests
    /\ LET e == url_entry[p] IN
       \/ /\ query_get(e.id) # NoRow
          /\ url' = SetClicks(url, e.id, e.clicks + 1)
          /\ click' = click \cup { NewClick(click_seq, e.id) }
          /\ click_seq' = click_seq + 1
          /\ Respond(p, Response("redirect", 302, query_get(e.id).short_code,
                                  query_get(e.id).original_url, 0, "none"))
       \/ /\ query_get(e.id) # NoRow
          /\ Respond(p, Response("redirect", 302, query_get(e.id).short_code,
                                  query_get(e.id).original_url, 0, "none"))
          /\ UNCHANGED << url, click, click_seq >>
       \/ /\ query_get(e.id) = NoRow
          /\ Respond(p, Response("redirect", 500, NoStr, NoStr, 0,
                                  "ObjectDeletedError"))
          /\ UNCHANGED << url, click, click_seq >>
    /\ url_entry' = [url_entry EXCEPT ![p] = NoEntry]
    /\ UNCHANGED << url_seq, arg, code >>

\* -------------------------------------------------- GET /stats/<short_code>
GetStatsCounting(p, sc) ==
    /\ Accept(p)
    /\ LET e == filter_by_short_code(sc) IN
       IF e = NoRow
       THEN /\ Respond(p, Response("stats", 404, sc, NoStr, 0, "URL not found"))
            /\ url' = url
       ELSE /\ Respond(p, Response("stats", 200, e.short_code, e.original_url,
                                    e.clicks, "none"))
            /\ url' = SetClicks(url, e.id, e.clicks + 1)
    /\ UNCHANGED << click, url_seq, click_seq, arg, code, url_entry >>

GetStats(p, sc) ==
    /\ Accept(p)
    /\ LET e == filter_by_short_code(sc) IN
       IF e = NoRow
       THEN Respond(p, Response("stats", 404, sc, NoStr, 0, "URL not found"))
       ELSE Respond(p, Response("stats", 200, e.short_code, e.original_url,
                                e.clicks, "none"))
    /\ UNCHANGED << url, click, url_seq, click_seq, arg, code, url_entry >>

\* ------------------------------------------------- POST /delete/<url_id>
\* delete_url: the query and the 404.
DeleteStart(p, id) ==
    /\ Accept(p)
    /\ IF query_get(id) = NoRow
       THEN /\ Respond(p, Response("delete", 404, NoStr, NoStr, 0, "Not found"))
            /\ UNCHANGED << url, click, url_seq, click_seq, arg, code, url_entry >>
       ELSE /\ url_entry' = [url_entry EXCEPT ![p] = Loaded(query_get(id))]
            /\ pc' = [pc EXCEPT ![p] = "delete"]
            /\ UNCHANGED << url, click, url_seq, click_seq, arg, code, resp >>

\* delete_url: the try block, its except clause, and the response (JSON for
\* an XMLHttpRequest, a redirect to the dashboard otherwise).  A DELETE that
\* matches no row (the row went meanwhile) is not an error.
DeleteCommit(p) ==
    /\ pc[p] = "delete"
    /\ UNCHANGED requests
    /\ LET e == url_entry[p] IN
       \/ /\ url' = { r \in url : r.id # e.id }
          /\ click' = cascade(e.id)
          /\ \E ajax \in BOOLEAN :
               Respond(p, Response("delete", IF ajax THEN 200 ELSE 302,
                                   NoStr, NoStr, 0, "none"))
       \/ /\ Respond(p, Response("delete", 500, NoStr, NoStr, 0,
                                  "OperationalError"))
          /\ UNCHANGED << url, click >>
    /\ url_entry' = [url_entry EXCEPT ![p] = NoEntry]
    /\ UNCHANGED << url_seq, click_seq, arg, code >>

\* ------------------------------------------------------------ specification
\* What worker p may do next.
Step(p) ==
    \/ \E u \in Inputs : ShortenStart(p, u)
    \/ Generate(p)
    \/ Insert(p)
    \/ \E sc \in random_choices(length) : Redirect(p, sc)
    \/ RecordClick(p)
    \/ \E sc \in random_choices(length) : GetStats(p, sc)
    \/ \E id \in 1..MaxId : DeleteStart(p, id)
    \/ DeleteCommit(p)

\* Requests served concurrently.
Next == \E p \in Procs : Step(p)

Spec == Init /\ [][Next]_vars

\* Requests served one after another: a worker moves only while every other
\* worker is idle.
Quiet(p) == \A q \in Procs \ {p} : pc[q] = "idle"

SeqNext == \E p \in Procs : Quiet(p) /\ Step(p)

SeqSpec == Init /\ [][SeqNext]_vars

\* Concurrent requests with fair random draws: a worker in the loop of
\* generate_short_code is not for ever kept from drawing a free code.
LiveSpec == Spec /\ \A p \in Procs : WF_vars(GenerateReturns(p))

\* ------------------------------------------------------------------ claims
\* The url begins with http:// or https://.
HasScheme(s) == startswith(s, http) \/ startswith(s, https)

\* The characters A-Z, a-z and 0-9.
AlphaNum ==
    { "A","B","C","D","E","F","G","H","I","J","K","L","M",
      "N","O","P","Q","R","S","T","U","V","W","X","Y","Z",
      "a","b","c","d","e","f","g","h","i","j","k","l","m",
      "n","o","p","q","r","s","t","u","v","w","x","y","z",
      "0","1","2","3","4","5","6","7","8","9" }

\* The click events of url row `id` among `rows`.
EventsOf(rows, id) == { c \in rows : c.url_id = id }

\* This step committed one click of url row `id`: its counter is one more,
\* and there is exactly one new click event, which references it.
ClickCommitted(id) ==
    /\ \E r \in url : \E r2 \in url' :
         /\ r.id = id
         /\ r2 = [r EXCEPT !.clicks = r.clicks + 1]
         /\ url' = (url \ {r}) \cup {r2}
    /\ \E c \in click' \ click :
         /\ click' = click \cup {c}
         /\ c.url_id = id

\* C1: in every reachable state of the store, whatever requests ran and
\* however they interleaved, no two url rows have the same short_code.
C1_UniqueShortCodes ==
    \A r1 \in url : \A r2 \in url : r1.short_code = r2.short_code => r1 = r2

\* Two concurrent shorten requests drew the same code: one row holds it and
\* the other request's insert was refused.
C1_Witness ==
    /\ url # {}
    /\ resp.op = "shorten"
    /\ resp.error = "IntegrityError"

\* The outcome C2 describes: a 400, and the url rows as they were.
Rejected(p) ==
    /\ resp'.op = "shorten"
    /\ resp'.status = 400
    /\ pc'[p] = "idle"
    /\ url' = url

\* C2 as stated: a shorten request whose input is empty or does not begin
\* with http:// or https:// is answered 400 and creates no row.
C2_Original ==
    [][\A p \in Procs : \A u \in Inputs :
         (ShortenStart(p, u) /\ (u = NoStr \/ ~ HasScheme(u))) => Rejected(p)]_vars

\* C2 as amended: a shorten request whose input, with the surrounding
\* whitespace removed, is empty or does not begin with http:// or https://
\* is answered 400 and creates no row.
C2_InvalidRejected ==
    [][\A p \in Procs : \A u \in Inputs :
         (ShortenStart(p, u) /\ (strip(u) = NoStr \/ ~ HasScheme(strip(u))))
             => Rejected(p)]_vars

\* A shorten request was answered 400 for its scheme while rows are stored.
C2_Witness ==
    /\ resp.op = "shorten"
    /\ resp.status = 400
    /\ resp.error = "Invalid URL"
    /\ url # {}

\* The outcome C3 describes for worker p storing `stored`: a 200 with a code
\* of 6 characters of A-Z, a-z, 0-9; exactly one new row, with that code, no
\* clicks and original_url `stored`; and the lookup of the code, as a redirect
\* does it, finds that url.
Shortened(p, stored) ==
    /\ resp'.op = "shorten"
    /\ resp'.status = 200
    /\ Len(resp'.short_code) = 6
    /\ \A i \in 1..Len(resp'.short_code) : resp'.short_code[i] \in AlphaNum
    /\ \E r \in url' \ url :
         /\ url' = url \cup {r}
         /\ r.short_code = resp'.short_code
         /\ r.clicks = 0
         /\ r.original_url = stored
    /\ \A r \in url' : r.short_code = resp'.short_code => r.original_url = stored

\* C3 as stated: a shorten request whose input begins with http:// or
\* https:// is accepted, and its insert succeeds with the outcome above, the
\* stored url being the input.
C3_Original ==
    [][\A p \in Procs :
         /\ \A u \in Inputs :
              (ShortenStart(p, u) /\ HasScheme(u)) => pc'[p] = "generate"
         /\ (Insert(p) /\ HasScheme(arg[p])) => Shortened(p, arg[p])]_vars

\* C3 as amended: a shorten request whose input begins with http:// or
\* https:// is accepted; when it answers 200 the outcome is the one above,
\* the stored url being the input with the surrounding whitespace removed;
\* otherwise it answers 500 and the url rows are as they were.
C3_ShortenStores ==
    [][\A p \in Procs :
         /\ \A u \in Inputs :
              (ShortenStart(p, u) /\ HasScheme(u)) => pc'[p] = "generate"
         /\ (Insert(p) /\ HasScheme(arg[p])) =>
              IF resp'.status = 200
              THEN Shortened(p, strip(arg[p]))
              ELSE resp'.status = 500 /\ url' = url]_vars

\* A shorten request of an input with trailing whitespace was answered 200
\* and its row is stored.
C3_Witness ==
    /\ resp.op = "shorten"
    /\ resp.status = 200
    /\ resp.original_url = << "h","t","t","p","s",":","/","/","a" >>
    /\ \E r \in url :
         /\ r.short_code = resp.short_code
         /\ r.original_url = resp.original_url

\* C4: with the requests served one after another, every redirect request
\* on an existing code raises that row's clicks by one and adds one click
\* event referencing it (so K of them raise clicks by K and add K events).
C4_Original ==
    [][\A p \in Procs : RecordClick(p) => ClickCommitted(url_entry[p].id)]_vars

\* C5: a redirect or get_stats on a code no row holds, and a delete on an
\* id no row holds, answer 404 and leave the url rows and the click events as
\* they were; get_stats on a stored code answers with the stored clicks and
\* changes nothing either.
C5_NotFoundAndStatsChangeNothing ==
    [][\A p \in Procs :
         /\ \A sc \in random_choices(length) :
              (Redirect(p, sc) /\ \A r \in url : r.short_code # sc) =>
                  /\ resp'.status = 404
                  /\ UNCHANGED << url, click >>
         /\ \A sc \in random_choices(length) :
              GetStats(p, sc) =>
                  /\ UNCHANGED << url, click >>
                  /\ IF \A r \in url : r.short_code # sc
                     THEN resp'.status = 404
                     ELSE /\ resp'.status = 200
                          /\ \E r \in url : /\ r.short_code = sc
                                            /\ resp'.clicks = r.clicks
         /\ \A id \in 1..MaxId :
              (DeleteStart(p, id) /\ \A r \in url : r.id # id) =>
                  /\ resp'.status = 404
                  /\ UNCHANGED << url, click >>]_vars

\* A request was answered 404 while rows and click events are stored.
C5_Witness ==
    /\ resp.status = 404
    /\ url # {}
    /\ click # {}

C7_Original ==
    [][\A p \in Procs :
         RecordClick(p) =>
             \/ resp'.status = 302 /\ ClickCommitted(url_entry[p].id)
             \/ resp'.status # 302 /\ UNCHANGED << url, click >>]_vars

\* C8: the uniqueness violation of an insert is never the answer to a
\* shorten request (the request retries with a fresh code and succeeds).
C8_Original ==
    resp.op = "shorten" => resp.error # "IntegrityError"

\* C9: every call of generate_short_code returns, given fair draws; a drawn
\* candidate that no row holds is returned at once, and a candidate that a
\* row holds is discarded and another is drawn.
C9_GenerateReturnsFirstFree ==
    /\ \A p \in Procs : (pc[p] = "generate") ~> (pc[p] # "generate")
    /\ [][\A p \in Procs :
            Generate(p) =>
                IF \A r \in url : r.short_code # code'[p]
                THEN pc'[p] = "insert"
                ELSE pc'[p] = "generate"]_vars

\* A call of generate_short_code has discarded a candidate and is drawing
\* again.
C9_Witness ==
    \E p \in Procs :
        /\ pc[p] = "generate"
        /\ \E r \in url : r.short_code = code[p]

\* C10: in every committed state each row's clicks is the number of click
\* events referencing it, and every click event references a stored row.
C10_Original ==
    /\ \A r \in url : r.clicks = Cardinality(EventsOf(click, r.id))
    /\ \A c \in click : \E r \in url : r.id = c.url_id
====
